---- MODULE Spec2Model ----
(***************************************************************************)
(* alx-polly: the access-control and vote-integrity layer of the polling   *)
(* application (server actions of app/lib/actions, guards and rate limiter *)
(* of lib/security), as a state machine over the datastore's polls and     *)
(* votes tables and the process-wide rate-limit map.                       *)
(***************************************************************************)
EXTENDS Naturals, Integers, Sequences, FiniteSets, Bags, TLC

VARIABLES
  polls,         \* polls table: poll id -> row [user_id, question, options]
  votes,         \* votes table: bag of rows [poll_id, user_id, option_index, ip_address]
  rateLimitMap,  \* validation.ts rateLimitMap: key -> [count, resetTime]
  now,           \* Date.now()
  scope,         \* names the poll-actions module resolves (see PollActionsImports)
  uniqueVotes,   \* the votes table carries the README's UNIQUE constraints
  inflight,      \* submitVote requests suspended at an await: slot -> request
  rlParams,      \* (maxRequests, windowMs) of the direct checkRateLimit calls
  windowCalls,   \* history: key -> [n, end], calls seen in the key's current window
  userMetadata,  \* session provider: identity -> user_metadata of the identity
  last           \* result returned by the last completed operation

vars == <<polls, votes, rateLimitMap, now, scope, uniqueVotes, inflight,
          rlParams, windowCalls, userMetadata, last>>

-----------------------------------------------------------------------------
(* Bounds of the model *)

MaxVotes == 4        \* rows of the votes table
MaxNow == 5          \* clock of the rate-limiter specification
MaxRequests == 2     \* largest maxRequests of the direct checkRateLimit calls
MaxWindow == 2       \* largest windowMs of the direct checkRateLimit calls
MaxPolls == 1        \* rows of the polls table
MaxTally == 23       \* votes of one option in the tallies of getPollResults
MaxChunks == 4       \* pieces of a text given to sanitizeString

(* Program constants *)

CreatePollMax == 5
VoteMax == 10
ActionWindowMs == 60000
QuestionMaxLen == 500
OptionMaxLen == 200
OptionsMin == 2
OptionsMax == 10
SliceLen == 1000
LoginMax == 5
RegisterMax == 3
AuthWindowMs == 300000
LoginPasswordMin == 6
PasswordMin == 8
PasswordMax == 128
NameMax == 100

-----------------------------------------------------------------------------
(* Values *)

NoUser == "null"          \* no session / user_id NULL
NoIP == "undefined"       \* clientIP not supplied / ip_address NULL
NoPoll == [user_id |-> NoUser, question |-> <<>>, options |-> <<>>, absent |-> TRUE]
NoEntry == [count |-> 0, resetTime |-> 0, absent |-> TRUE]

Users == {"u1", "u2", "adm"}
Addresses == {"A", "B"}

\* the identities the session provider knows at the start: an admin, a user
\* whose metadata names the role user, and a user whose metadata names no role
InitialMetadata ==
  [u \in Users |-> IF u = "adm" THEN [role |-> "admin"]
                   ELSE IF u = "u1" THEN [role |-> "user"]
                   ELSE [name |-> <<"N">>]]

\* user.user_metadata?.role ("" when the metadata has none)
UserMetadataRole(u) ==
  IF u \in DOMAIN userMetadata /\ "role" \in DOMAIN userMetadata[u]
  THEN userMetadata[u].role
  ELSE ""

PollUuidSeq == <<"p1", "p2", "p3">>
PollUuids == {PollUuidSeq[i] : i \in 1..Len(PollUuidSeq)}

\* /^[0-9a-f]{8}-[0-9a-f]{4}-[0-9a-f]{4}-[0-9a-f]{4}-[0-9a-f]{12}$/i.test(id)
IsUuid(id) == id \in PollUuids

Min(a, b) == IF a < b THEN a ELSE b

-----------------------------------------------------------------------------
(* Text: a string is a sequence of one-character strings *)

UpperChars == <<"A","B","C","D","E","F","G","H","I","J","K","L","M",
                "N","O","P","Q","R","S","T","U","V","W","X","Y","Z">>
LowerChars == <<"a","b","c","d","e","f","g","h","i","j","k","l","m",
                "n","o","p","q","r","s","t","u","v","w","x","y","z">>
Digits == {"0","1","2","3","4","5","6","7","8","9"}

ToLower(c) ==
  IF \E i \in 1..26 : UpperChars[i] = c
  THEN LowerChars[CHOOSE i \in 1..26 : UpperChars[i] = c]
  ELSE c

\* \w
IsWord(c) == (\E i \in 1..26 : LowerChars[i] = ToLower(c)) \/ c \in Digits \/ c = "_"

\* \s (the characters of it the model uses)
IsSpace(c) == c = " "

\* pat (lower case) occurs in s at position i, ignoring case
MatchAt(s, i, pat) ==
  /\ i >= 1
  /\ i + Len(pat) - 1 <= Len(s)
  /\ \A k \in 1..Len(pat) : ToLower(s[i + k - 1]) = pat[k]

\* length of the run of word characters of s that starts at position i
RECURSIVE WordRun(_, _)
WordRun(s, i) == IF i <= Len(s) /\ IsWord(s[i]) THEN 1 + WordRun(s, i + 1) ELSE 0

\* length of the match of /on\w+=/i at position i of s, 0 when there is none:
\* \w+ is greedy and "=" is no word character, so the run is taken whole
OnHandlerAt(s, i) ==
  IF MatchAt(s, i, <<"o", "n">>)
  THEN LET r == WordRun(s, i + 2)
       IN IF r >= 1 /\ i + 2 + r <= Len(s) /\ s[i + 2 + r] = "=" THEN r + 3 ELSE 0
  ELSE 0

ScriptPat == <<"<","s","c","r","i","p","t">>
JavascriptPat == <<"j","a","v","a","s","c","r","i","p","t",":">>

\* /<script|javascript:|on\w+=/i.test(val)
LooksMalicious(s) ==
  \E i \in 1..Len(s) :
    MatchAt(s, i, ScriptPat) \/ MatchAt(s, i, JavascriptPat) \/ OnHandlerAt(s, i) > 0

-----------------------------------------------------------------------------
(* Sanitizer *)

RECURSIVE TrimLeft(_)
TrimLeft(s) == IF s # <<>> /\ IsSpace(Head(s)) THEN TrimLeft(Tail(s)) ELSE s

RECURSIVE TrimRight(_)
TrimRight(s) ==
  IF s # <<>> /\ IsSpace(s[Len(s)]) THEN TrimRight(SubSeq(s, 1, Len(s) - 1)) ELSE s

Trim(s) == TrimLeft(TrimRight(s))

\* .replace(/[<>]/g, '')
StripAngles(s) == SelectSeq(s, LAMBDA c : c # "<" /\ c # ">")

\* .replace(/javascript:/gi, ''): one pass, left to right, matches do not overlap
RECURSIVE StripJavascriptFrom(_, _)
StripJavascriptFrom(s, i) ==
  IF i > Len(s) THEN <<>>
  ELSE IF MatchAt(s, i, JavascriptPat)
       THEN StripJavascriptFrom(s, i + Len(JavascriptPat))
       ELSE <<s[i]>> \o StripJavascriptFrom(s, i + 1)

\* .replace(/on\w+=/gi, '')
RECURSIVE StripHandlersFrom(_, _)
StripHandlersFrom(s, i) ==
  IF i > Len(s) THEN <<>>
  ELSE IF OnHandlerAt(s, i) > 0
       THEN StripHandlersFrom(s, i + OnHandlerAt(s, i))
       ELSE <<s[i]>> \o StripHandlersFrom(s, i + 1)

sanitizeString(input) ==
  LET a == Trim(input)
      b == StripAngles(a)
      c == StripJavascriptFrom(b, 1)
      d == StripHandlersFrom(c, 1)
  IN SubSeq(d, 1, Min(Len(d), SliceLen))

sanitizePollDataReversed(data) ==
  [question |-> sanitizeString(data.question),
   options |-> [i \in 1..Len(data.options) |->
                  sanitizeString(data.options[Len(data.options) + 1 - i])]]
sanitizePollData(data) ==
  [question |-> sanitizeString(data.question),
   options |-> [i \in 1..Len(data.options) |-> sanitizeString(data.options[i])]]

-----------------------------------------------------------------------------
(* Validator *)

\* PollQuestionSchema: the messages of the rules the question violates
PollQuestionIssues(q) ==
  (IF Len(q) < 1 THEN {"Question is required"} ELSE {})
  \cup (IF Len(q) > QuestionMaxLen THEN {"Question must be less than 500 characters"} ELSE {})
  \cup (IF LooksMalicious(q) THEN {"Question contains potentially malicious content"} ELSE {})

PollOptionIssues(o) ==
  (IF Len(o) < 1 THEN {"Option cannot be empty"} ELSE {})
  \cup (IF Len(o) > OptionMaxLen THEN {"Option must be less than 200 characters"} ELSE {})
  \cup (IF LooksMalicious(o) THEN {"Option contains potentially malicious content"} ELSE {})

\* new Set(options).size === options.length
AllDistinct(seq) == Cardinality({seq[i] : i \in 1..Len(seq)}) = Len(seq)

PollOptionsIssues(opts) ==
  UNION {PollOptionIssues(opts[i]) : i \in 1..Len(opts)}
  \cup (IF Len(opts) < OptionsMin THEN {"At least 2 options are required"} ELSE {})
  \cup (IF Len(opts) > OptionsMax THEN {"Maximum 10 options allowed"} ELSE {})
  \cup (IF ~AllDistinct(opts) THEN {"Options must be unique"} ELSE {})

\* validatePollData: the set of violated rules; empty when the data parses
validatePollData(data) == PollQuestionIssues(data.question) \cup PollOptionsIssues(data.options)

\* validateVoteData (VoteSchema): pollId a uuid, optionIndex an integer >= 0
validateVoteData(pollId, optionIndex) ==
  (IF ~IsUuid(pollId) THEN {"Invalid poll ID"} ELSE {})
  \cup (IF optionIndex < 0 THEN {"Invalid option index"} ELSE {})

\* z.string().email(): the addresses of the model the pattern accepts
WellFormedEmails == {"x@y.io"}
IsEmail(email) == email \in WellFormedEmails

\* validateLoginData (LoginSchema)
validateLoginData(data) ==
  (IF ~IsEmail(data.email) THEN {"Invalid email address"} ELSE {})
  \cup (IF Len(data.password) < LoginPasswordMin
        THEN {"Password must be at least 6 characters"} ELSE {})

\* /^(?=.*[a-z])(?=.*[A-Z])(?=.*\d)/.test(val)
HasLowerUpperDigit(val) ==
  /\ \E i \in 1..Len(val) : \E k \in 1..26 : LowerChars[k] = val[i]
  /\ \E i \in 1..Len(val) : \E k \in 1..26 : UpperChars[k] = val[i]
  /\ \E i \in 1..Len(val) : val[i] \in Digits

\* validateRegisterData (RegisterSchema)
validateRegisterData(data) ==
  (IF Len(data.name) < 1 THEN {"Name is required"} ELSE {})
  \cup (IF Len(data.name) > NameMax THEN {"Name must be less than 100 characters"} ELSE {})
  \cup (IF LooksMalicious(data.name) THEN {"Name contains potentially malicious content"} ELSE {})
  \cup (IF ~IsEmail(data.email) THEN {"Invalid email address"} ELSE {})
  \cup (IF Len(data.password) < PasswordMin
        THEN {"Password must be at least 8 characters"} ELSE {})
  \cup (IF Len(data.password) > PasswordMax
        THEN {"Password must be less than 128 characters"} ELSE {})
  \cup (IF ~HasLowerUpperDigit(data.password)
        THEN {"Password must contain at least one uppercase letter, one lowercase letter, and one number"}
        ELSE {})
  \cup (IF data.password # data.confirmPassword THEN {"Passwords don't match"} ELSE {})

-----------------------------------------------------------------------------
(* Rate limiter *)

Entry(map, key) == IF key \in DOMAIN map THEN map[key] ELSE NoEntry

\* rateLimitMap.set(identifier, entry)
SetEntryAlone(map, key, e) == [k \in {key} |-> e]
SetEntry(map, key, e) == [k \in DOMAIN map \cup {key} |-> IF k = key THEN e ELSE map[k]]

\* line 102: the entry is missing or its window is over
WindowOverInclusive(current, t) == current.absent \/ t >= current.resetTime
WindowOver(current, t) == current.absent \/ t > current.resetTime

\* line 116: the window's quota is used up
QuotaUsedStrict(current, maxRequests) == current.count > maxRequests
QuotaUsed(current, maxRequests) == current.count >= maxRequests

\* checkRateLimit at time t: the map after the call and the value returned
checkRateLimitExtendOnDeny(map, identifier, maxRequests, windowMs, t) ==
  LET current == Entry(map, identifier) IN
  IF WindowOver(current, t)
  THEN [map |-> SetEntry(map, identifier,
                         [count |-> 1, resetTime |-> t + windowMs, absent |-> FALSE]),
        allowed |-> TRUE,
        remaining |-> maxRequests - 1,
        resetTime |-> t + windowMs]
  ELSE IF QuotaUsed(current, maxRequests)
  THEN [map |-> SetEntry(map, identifier, [current EXCEPT !.resetTime = t + windowMs]),
        allowed |-> FALSE,
        remaining |-> 0,
        resetTime |-> t + windowMs]
  ELSE [map |-> SetEntry(map, identifier, [current EXCEPT !.count = @ + 1]),
        allowed |-> TRUE,
        remaining |-> maxRequests - (current.count + 1),
        resetTime |-> current.resetTime]
checkRateLimitLostUpdate(map, identifier, maxRequests, windowMs, t) ==
  LET current == Entry(map, identifier) IN
  IF WindowOver(current, t)
  THEN [map |-> SetEntry(map, identifier,
                         [count |-> 1, resetTime |-> t + windowMs, absent |-> FALSE]),
        allowed |-> TRUE,
        remaining |-> maxRequests - 1,
        resetTime |-> t + windowMs]
  ELSE [map |-> map,
        allowed |-> ~QuotaUsed(current, maxRequests),
        remaining |-> IF QuotaUsed(current, maxRequests) THEN 0
                      ELSE maxRequests - (current.count + 1),
        resetTime |-> current.resetTime]
checkRateLimit(map, identifier, maxRequests, windowMs, t) ==
  LET current == Entry(map, identifier) IN
  IF WindowOver(current, t)
  THEN [map |-> SetEntry(map, identifier,
                         [count |-> 1, resetTime |-> t + windowMs, absent |-> FALSE]),
        allowed |-> TRUE,
        remaining |-> maxRequests - 1,
        resetTime |-> t + windowMs]
  ELSE IF QuotaUsed(current, maxRequests)
  THEN [map |-> map,
        allowed |-> FALSE,
        remaining |-> 0,
        resetTime |-> current.resetTime]
  ELSE [map |-> SetEntry(map, identifier, [current EXCEPT !.count = @ + 1]),
        allowed |-> TRUE,
        remaining |-> maxRequests - (current.count + 1),
        resetTime |-> current.resetTime]

-----------------------------------------------------------------------------
(* Security context and guards (lib/security/auth-utils) *)

AdminPermissions == {"read:all", "write:all", "delete:all", "admin:access"}
UserPermissions == {"read:own", "write:own", "delete:own"}

\* sess is the identity supabase.auth.getUser() yields for the request, NoUser
\* when it yields none (or an error)
getSecurityContextMetadataRole(sess) ==
  IF sess = NoUser
  THEN [user |-> NoUser, role |-> "null", permissions |-> {},
        isAuthenticated |-> FALSE, isAdmin |-> FALSE]
  ELSE LET role == IF UserMetadataRole(sess) = "" THEN "user" ELSE UserMetadataRole(sess)
           isAdmin == role = "admin"
       IN [user |-> sess,
           role |-> role,
           permissions |-> IF isAdmin THEN AdminPermissions ELSE UserPermissions,
           isAuthenticated |-> TRUE,
           isAdmin |-> isAdmin]
getSecurityContext(sess) ==
  IF sess = NoUser
  THEN [user |-> NoUser, role |-> "null", permissions |-> {},
        isAuthenticated |-> FALSE, isAdmin |-> FALSE]
  ELSE LET role == IF UserMetadataRole(sess) = "" THEN "user" ELSE UserMetadataRole(sess)
           isAdmin == role = "admin"
       IN [user |-> sess,
           role |-> IF isAdmin THEN "admin" ELSE "user",
           permissions |-> IF isAdmin THEN AdminPermissions ELSE UserPermissions,
           isAuthenticated |-> TRUE,
           isAdmin |-> isAdmin]

\* the characters of the permission strings
PermissionChars(p) ==
  CASE p = "read:all" -> <<"r","e","a","d",":","a","l","l">>
    [] p = "write:all" -> <<"w","r","i","t","e",":","a","l","l">>
    [] p = "delete:all" -> <<"d","e","l","e","t","e",":","a","l","l">>
    [] p = "admin:access" -> <<"a","d","m","i","n",":","a","c","c","e","s","s">>
    [] p = "read:own" -> <<"r","e","a","d",":","o","w","n">>
    [] p = "write:own" -> <<"w","r","i","t","e",":","o","w","n">>
    [] p = "delete:own" -> <<"d","e","l","e","t","e",":","o","w","n">>
    [] p = "read" -> <<"r","e","a","d">>

\* action.split(':')[0]
RECURSIVE SplitFirst(_)
SplitFirst(action) ==
  IF action = <<>> \/ Head(action) = ":" THEN <<>>
  ELSE <<Head(action)>> \o SplitFirst(Tail(action))

\* permission.startsWith(prefix)
StartsWith(permission, prefix) ==
  Len(prefix) <= Len(permission) /\ SubSeq(permission, 1, Len(prefix)) = prefix

\* hasPermission(context, action); action is a sequence of characters
hasPermissionExact(context, action) ==
  IF ~context.isAuthenticated THEN FALSE
  ELSE IF "admin:access" \in context.permissions THEN TRUE
  ELSE \E permission \in context.permissions : PermissionChars(permission) = action
hasPermission(context, action) ==
  IF ~context.isAuthenticated THEN FALSE
  ELSE IF "admin:access" \in context.permissions THEN TRUE
  ELSE \E permission \in context.permissions :
         \/ PermissionChars(permission) = action
         \/ StartsWith(PermissionChars(permission), SplitFirst(action) \o <<":">>)

ErrAuthRequired == "Authentication required"
ErrAdminRequired == "Admin access required"
ErrAccessDenied == "Access denied: You can only access your own resources"

PollRow(tbl, id) == IF id \in DOMAIN tbl THEN tbl[id] ELSE NoPoll

\* poll?.user_id === userId, on the row .eq('id', resourceId).single() yields
verifyOwnership(tbl, resourceId, userId) ==
  LET poll == PollRow(tbl, resourceId) IN ~poll.absent /\ poll.user_id = userId

\* the error thrown ("null" when the guard returns the context)
requireAuth(sess) ==
  IF ~getSecurityContext(sess).isAuthenticated THEN ErrAuthRequired ELSE "null"

requireAdminNoRoleCheck(sess) ==
  IF ~getSecurityContext(sess).isAuthenticated THEN ErrAuthRequired ELSE "null"
requireAdmin(sess) ==
  LET context == getSecurityContext(sess) IN
  IF ~context.isAuthenticated THEN ErrAuthRequired
  ELSE IF ~context.isAdmin THEN ErrAdminRequired
  ELSE "null"

\* error: the error thrown ("null" when none); lookups: owner lookups made
requireOwnershipOrAdminNoOwnerCheck(tbl, sess, resourceId) ==
  IF ~getSecurityContext(sess).isAuthenticated
  THEN [error |-> ErrAuthRequired, lookups |-> 0]
  ELSE [error |-> "null", lookups |-> 0]
requireOwnershipOrAdminLookupFirst(tbl, sess, resourceId) ==
  LET context == getSecurityContext(sess) IN
  IF ~context.isAuthenticated THEN [error |-> ErrAuthRequired, lookups |-> 0]
  ELSE IF verifyOwnership(tbl, resourceId, context.user) \/ context.isAdmin
  THEN [error |-> "null", lookups |-> 1]
  ELSE [error |-> ErrAccessDenied, lookups |-> 1]
requireOwnershipOrAdmin(tbl, sess, resourceId) ==
  LET context == getSecurityContext(sess) IN
  IF ~context.isAuthenticated THEN [error |-> ErrAuthRequired, lookups |-> 0]
  ELSE IF context.isAdmin THEN [error |-> "null", lookups |-> 0]
  ELSE IF ~verifyOwnership(tbl, resourceId, context.user)
  THEN [error |-> ErrAccessDenied, lookups |-> 1]
  ELSE [error |-> "null", lookups |-> 1]

-----------------------------------------------------------------------------
(* Name resolution in app/lib/actions/poll-actions.ts *)

\* the names the module imports (lines 3-7)
PollActionsImports ==
  {"createClient", "revalidatePath", "requireAuth", "validatePollData",
   "sanitizePollData", "checkRateLimit", "validateCSRFToken"}

\* names the module uses without importing them; lib/security exports both
UnimportedNames == {"validateVoteData", "requireOwnershipOrAdmin"}

\* the module as written, and the module with its import list completed
Scopes == {PollActionsImports, PollActionsImports \cup UnimportedNames}

\* evaluating a name that is not in scope throws a ReferenceError, which the
\* action's catch turns into its message
ReferenceError(name) == name \o " is not defined"

\* requireOwnershipOrAdmin as poll-actions.ts reaches it
GuardOwnership(sc, tbl, sess, id) ==
  IF "requireOwnershipOrAdmin" \in sc
  THEN requireOwnershipOrAdmin(tbl, sess, id)
  ELSE [error |-> ReferenceError("requireOwnershipOrAdmin"), lookups |-> 0]

-----------------------------------------------------------------------------
(* CSRF (lib/security/csrf) *)

\* validateCSRFToken: the form's csrf-token against the cookie's
validateCSRFToken(token, stored) == token # "" /\ stored = token

ErrCsrf == "Invalid CSRF token. Please refresh the page and try again."
ErrRateLimit == "Rate limit exceeded"
ErrUuid == "Invalid poll ID format"
ErrMissing == "Please provide a question and at least two options."
ErrNoRows == "JSON object requested, multiple (or no) rows returned"
ErrPollNotFound == "Poll not found"
ErrInvalidOption == "Invalid option selected"
ErrVotedUser == "You have already voted on this poll"
ErrVotedDevice == "You have already voted on this poll from this device"
ErrUniqueViolation == "duplicate key value violates unique constraint"
ErrValidation == "ValidationError"
ErrForeignKey == "insert or update on table violates foreign key constraint"
ErrDatastore == "permission denied for table polls"

-----------------------------------------------------------------------------
(* Datastore: the votes table *)

\* the rows a query selects, each with its multiplicity
VotesWhere(b, rows) == [v \in DOMAIN b \cap rows |-> b[v]]

CountWhere(b, rows) == BagCardinality(VotesWhere(b, rows))

\* .single(): the row when the query yields exactly one row, else null data
SingleFound(b, rows) == CountWhere(b, rows) = 1

\* UNIQUE(poll_id, user_id) and UNIQUE(poll_id, ip_address); NULLs never collide
ViolatesUniqueUserOnly(b, row) ==
  \E v \in DOMAIN b :
    v.poll_id = row.poll_id /\ row.user_id # NoUser /\ v.user_id = row.user_id
ViolatesUnique(b, row) ==
  \E v \in DOMAIN b :
    /\ v.poll_id = row.poll_id
    /\ \/ (row.user_id # NoUser /\ v.user_id = row.user_id)
       \/ (row.ip_address # NoIP /\ v.ip_address = row.ip_address)

InsertVote(b, row) == b (+) SetToBag({row})

DeleteVotesOf(b, id) == VotesWhere(b, {v \in DOMAIN b : v.poll_id # id})

\* a deleted row stays in the function as NoPoll: gen_random_uuid() never
\* issues the id of a deleted poll again
DeletePollRow(tbl, id) == [p \in DOMAIN tbl |-> IF p = id THEN NoPoll ELSE tbl[p]]

-----------------------------------------------------------------------------
(* Datastore: the polls table *)

\* ids are issued in the order of PollUuidSeq (they are opaque to the program)
CanInsertPoll(tbl) ==
  Cardinality(DOMAIN tbl) < MaxPolls /\ Cardinality(DOMAIN tbl) < Len(PollUuidSeq)

NewPollId(tbl) == PollUuidSeq[Cardinality(DOMAIN tbl) + 1]

InsertPoll(tbl, row) ==
  [p \in DOMAIN tbl \cup {NewPollId(tbl)} |-> IF p = NewPollId(tbl) THEN row ELSE tbl[p]]

UpdatePollRow(tbl, id, data) ==
  [p \in DOMAIN tbl |->
     IF p = id /\ ~tbl[p].absent
     THEN [tbl[p] EXCEPT !.question = data.question, !.options = data.options]
     ELSE tbl[p]]

ExistingPolls(tbl) == {p \in DOMAIN tbl : ~tbl[p].absent}

\* formData.getAll("options").filter(Boolean)
FilterBoolean(opts) == SelectSeq(opts, LAMBDA o : o # <<>>)

-----------------------------------------------------------------------------
(* Inputs *)

Sessions == {NoUser} \cup Users

TxtQ == <<"Q">>
TxtR == <<"R", " ">>
TxtA == <<"a">>
TxtB == <<"b">>
TxtC == <<"c">>

Idle == [pc |-> "idle"]
Slots == {1, 2}

-----------------------------------------------------------------------------
(* Operations of app/lib/actions/poll-actions.ts *)

Store == <<polls, votes>>
Ambient == <<scope, uniqueVotes, inflight, rlParams, windowCalls, userMetadata>>

Result(op, sess, id, error) == [op |-> op, sess |-> sess, id |-> id, error |-> error]

createPoll(sess, token, stored, clientIP, input) ==
  LET ip == IF clientIP = NoIP THEN "unknown" ELSE clientIP
      rl == checkRateLimit(rateLimitMap, "create_poll_" \o ip, CreatePollMax,
                           ActionWindowMs, now)
      options == FilterBoolean(input.options)
      data == [question |-> input.question, options |-> options]
      error ==
        IF ~validateCSRFToken(token, stored) THEN ErrCsrf
        ELSE IF ~rl.allowed THEN ErrRateLimit
        ELSE IF requireAuth(sess) # "null" THEN requireAuth(sess)
        ELSE IF input.question = <<>> \/ Len(options) < 2 THEN ErrMissing
        ELSE IF validatePollData(data) # {} THEN ErrValidation
        ELSE "null"
      row == [user_id |-> sess,
              question |-> sanitizePollData(data).question,
              options |-> sanitizePollData(data).options,
              absent |-> FALSE]
  IN /\ error = "null" => CanInsertPoll(polls)
     /\ rateLimitMap' = IF error = ErrCsrf THEN rateLimitMap ELSE rl.map
     /\ polls' = IF error = "null" THEN InsertPoll(polls, row) ELSE polls
     /\ last' = [op |-> "createPoll", sess |-> sess,
                 id |-> IF error = "null" THEN NewPollId(polls) ELSE "none",
                 error |-> error,
                 csrf |-> validateCSRFToken(token, stored), ip |-> ip, input |-> input,
                 data |-> IF error = "null"
                          THEN {[id |-> NewPollId(polls), question |-> row.question,
                                 options |-> row.options, user_id |-> row.user_id]}
                          ELSE {}]
     /\ UNCHANGED <<votes, now, Ambient>>

updatePoll(sess, token, stored, pollId, input) ==
  LET guard == GuardOwnership(scope, polls, sess, pollId)
      options == FilterBoolean(input.options)
      data == [question |-> input.question, options |-> options]
      error ==
        IF ~validateCSRFToken(token, stored) THEN ErrCsrf
        ELSE IF ~IsUuid(pollId) THEN ErrUuid
        ELSE IF guard.error # "null" THEN guard.error
        ELSE IF input.question = <<>> \/ Len(options) < 2 THEN ErrMissing
        ELSE IF validatePollData(data) # {} THEN ErrValidation
        ELSE "null"
  IN /\ polls' = IF error = "null"
                 THEN UpdatePollRow(polls, pollId, sanitizePollData(data))
                 ELSE polls
     /\ last' = Result("updatePoll", sess, pollId, error)
     /\ UNCHANGED <<votes, rateLimitMap, now, Ambient>>

deletePoll(sess, id) ==
  LET guard == GuardOwnership(scope, polls, sess, id)
      error == IF ~IsUuid(id) THEN ErrUuid
               ELSE IF guard.error # "null" THEN guard.error
               ELSE "null"
  IN /\ votes' = IF error = "null" THEN DeleteVotesOf(votes, id) ELSE votes
     /\ polls' = IF error = "null" THEN DeletePollRow(polls, id) ELSE polls
     /\ last' = Result("deletePoll", sess, id, error)
     /\ UNCHANGED <<rateLimitMap, now, Ambient>>

\* select("id, question, options, created_at").eq("id", id).single()
PublicColumns(id, row) == [id |-> id, question |-> row.question, options |-> row.options]

EditColumns(id, row) ==
  [id |-> id, question |-> row.question, options |-> row.options, user_id |-> row.user_id]

getPollById(sess, id) ==
  LET row == PollRow(polls, id)
      error == IF ~IsUuid(id) THEN ErrUuid
               ELSE IF row.absent THEN ErrNoRows
               ELSE "null"
  IN /\ last' = [op |-> "getPollById", sess |-> sess, id |-> id, error |-> error,
                 data |-> IF error = "null" THEN {PublicColumns(id, row)} ELSE {}]
     /\ UNCHANGED <<Store, rateLimitMap, now, Ambient>>

getPollByIdForEdit(sess, id) ==
  LET guard == GuardOwnership(scope, polls, sess, id)
      row == PollRow(polls, id)
      error == IF guard.error # "null" THEN guard.error
               ELSE IF ~IsUuid(id) THEN ErrUuid
               ELSE IF row.absent THEN ErrNoRows
               ELSE "null"
  IN /\ last' = [op |-> "getPollByIdForEdit", sess |-> sess, id |-> id, error |-> error,
                 data |-> IF error = "null" THEN {EditColumns(id, row)} ELSE {}]
     /\ UNCHANGED <<Store, rateLimitMap, now, Ambient>>

-----------------------------------------------------------------------------
(* submitVote *)

VoteKey(clientIP) == "vote_" \o (IF clientIP = NoIP THEN "anonymous" ELSE clientIP)

\* line 156: validateVoteData({ pollId, optionIndex })
VoteCheckInput(sc, pollId, optionIndex) ==
  IF "validateVoteData" \notin sc THEN ReferenceError("validateVoteData")
  ELSE IF validateVoteData(pollId, optionIndex) # {} THEN ErrValidation
  ELSE "null"

\* lines 161-174: the poll exists and has the option
VoteCheckPoll(tbl, pollId, optionIndex) ==
  LET poll == PollRow(tbl, pollId) IN
  IF poll.absent THEN ErrPollNotFound
  ELSE IF optionIndex < 0 \/ optionIndex >= Len(poll.options) THEN ErrInvalidOption
  ELSE "null"

\* lines 180-203: a row of the poll with the user's id, or, for a caller with no
\* session, with the caller's address (.eq on an undefined address matches no row)
VoteCheckDuplicateNoUserCheck(b, sess, pollId, clientIP) ==
  IF sess = NoUser /\ SingleFound(b, {v \in DOMAIN b : v.poll_id = pollId /\ clientIP # NoIP
                                                /\ v.ip_address = clientIP})
  THEN ErrVotedDevice
  ELSE "null"
VoteCheckDuplicate(b, sess, pollId, clientIP) ==
  IF sess # NoUser
  THEN IF SingleFound(b, {v \in DOMAIN b : v.poll_id = pollId /\ v.user_id = sess})
       THEN ErrVotedUser ELSE "null"
  ELSE IF SingleFound(b, {v \in DOMAIN b : v.poll_id = pollId /\ clientIP # NoIP
                                    /\ v.ip_address = clientIP})
       THEN ErrVotedDevice ELSE "null"

\* lines 206-214: the row inserted
VoteRow(sess, pollId, optionIndex, clientIP) ==
  [poll_id |-> pollId, user_id |-> sess, option_index |-> optionIndex,
   ip_address |-> clientIP]

\* the error of the insert: poll_id REFERENCES polls(id), and the UNIQUE
\* constraints when the table carries them
VoteInsertErrorNoForeignKey(tbl, b, unique, row) ==
  IF unique /\ ViolatesUnique(b, row) THEN ErrUniqueViolation ELSE "null"
VoteInsertError(tbl, b, unique, row) ==
  IF PollRow(tbl, row.poll_id).absent THEN ErrForeignKey
  ELSE IF unique /\ ViolatesUnique(b, row) THEN ErrUniqueViolation
  ELSE "null"

VoteResult(sess, pollId, optionIndex, clientIP, error) ==
  [op |-> "submitVote", sess |-> sess, id |-> pollId, error |-> error,
   option |-> optionIndex, ip |-> clientIP]

\* a whole submitVote call, no other request running between its awaits
submitVote(sess, pollId, optionIndex, clientIP) ==
  LET rl == checkRateLimit(rateLimitMap, VoteKey(clientIP), VoteMax, ActionWindowMs, now)
      row == VoteRow(sess, pollId, optionIndex, clientIP)
      error ==
        IF ~rl.allowed THEN ErrRateLimit
        ELSE IF VoteCheckInput(scope, pollId, optionIndex) # "null"
        THEN VoteCheckInput(scope, pollId, optionIndex)
        ELSE IF VoteCheckPoll(polls, pollId, optionIndex) # "null"
        THEN VoteCheckPoll(polls, pollId, optionIndex)
        ELSE IF VoteCheckDuplicate(votes, sess, pollId, clientIP) # "null"
        THEN VoteCheckDuplicate(votes, sess, pollId, clientIP)
        ELSE VoteInsertError(polls, votes, uniqueVotes, row)
  IN /\ error = "null" => BagCardinality(votes) < MaxVotes
     /\ rateLimitMap' = rl.map
     /\ votes' = IF error = "null" THEN InsertVote(votes, row) ELSE votes
     /\ last' = VoteResult(sess, pollId, optionIndex, clientIP, error)
     /\ UNCHANGED <<polls, now, Ambient>>

\* submitVote run by concurrent requests: a request is suspended at its awaits.
\* Up to the first datastore query (lines 145-156)
voteStart(slot, sess, pollId, optionIndex, clientIP) ==
  LET rl == checkRateLimit(rateLimitMap, VoteKey(clientIP), VoteMax, ActionWindowMs, now)
      error == IF ~rl.allowed THEN ErrRateLimit
               ELSE VoteCheckInput(scope, pollId, optionIndex)
      req == [pc |-> "lookup", sess |-> sess, pollId |-> pollId,
              optionIndex |-> optionIndex, clientIP |-> clientIP]
  IN /\ inflight[slot] = Idle
     /\ rateLimitMap' = rl.map
     /\ inflight' = IF error = "null" THEN [inflight EXCEPT ![slot] = req] ELSE inflight
     /\ last' = IF error = "null" THEN last
                ELSE VoteResult(sess, pollId, optionIndex, clientIP, error)
     /\ UNCHANGED <<Store, now, scope, uniqueVotes, rlParams, windowCalls,
                   userMetadata>>

\* lines 161-174
voteLookup(slot) ==
  LET r == inflight[slot]
      error == VoteCheckPoll(polls, r.pollId, r.optionIndex)
  IN /\ r.pc = "lookup"
     /\ inflight' = [inflight EXCEPT ![slot] =
                       IF error = "null" THEN [r EXCEPT !.pc = "check"] ELSE Idle]
     /\ last' = IF error = "null" THEN last
                ELSE VoteResult(r.sess, r.pollId, r.optionIndex, r.clientIP, error)
     /\ UNCHANGED <<Store, rateLimitMap, now, scope, uniqueVotes, rlParams, windowCalls,
                   userMetadata>>

\* lines 177-203
voteCheck(slot) ==
  LET r == inflight[slot]
      error == VoteCheckDuplicate(votes, r.sess, r.pollId, r.clientIP)
  IN /\ r.pc = "check"
     /\ inflight' = [inflight EXCEPT ![slot] =
                       IF error = "null" THEN [r EXCEPT !.pc = "insert"] ELSE Idle]
     /\ last' = IF error = "null" THEN last
                ELSE VoteResult(r.sess, r.pollId, r.optionIndex, r.clientIP, error)
     /\ UNCHANGED <<Store, rateLimitMap, now, scope, uniqueVotes, rlParams, windowCalls,
                   userMetadata>>

\* lines 206-217
voteInsert(slot) ==
  LET r == inflight[slot]
      row == VoteRow(r.sess, r.pollId, r.optionIndex, r.clientIP)
      error == VoteInsertError(polls, votes, uniqueVotes, row)
  IN /\ r.pc = "insert"
     /\ error = "null" => BagCardinality(votes) < MaxVotes
     /\ votes' = IF error = "null" THEN InsertVote(votes, row) ELSE votes
     /\ inflight' = [inflight EXCEPT ![slot] = Idle]
     /\ last' = VoteResult(r.sess, r.pollId, r.optionIndex, r.clientIP, error)
     /\ UNCHANGED <<polls, rateLimitMap, now, scope, uniqueVotes, rlParams, windowCalls,
                   userMetadata>>

-----------------------------------------------------------------------------
(* Operations of app/lib/actions/admin-actions.ts *)

AllColumns(tbl) == {EditColumns(p, tbl[p]) : p \in ExistingPolls(tbl)}

getAllPolls(sess) ==
  LET error == requireAdmin(sess) IN
  /\ last' = [op |-> "getAllPolls", sess |-> sess, id |-> "none", error |-> error,
              data |-> IF error = "null" THEN AllColumns(polls) ELSE {}]
  /\ UNCHANGED <<Store, rateLimitMap, now, Ambient>>

getPollVotes(sess, pollId) ==
  LET error == IF requireAdmin(sess) # "null" THEN requireAdmin(sess)
               ELSE IF ~IsUuid(pollId) THEN ErrUuid
               ELSE "null"
  IN /\ last' = [op |-> "getPollVotes", sess |-> sess, id |-> pollId, error |-> error,
                 data |-> IF error = "null"
                          THEN DOMAIN VotesWhere(votes, {v \in DOMAIN votes : v.poll_id = pollId})
                          ELSE {}]
     /\ UNCHANGED <<Store, rateLimitMap, now, Ambient>>

adminDeletePoll(sess, pollId) ==
  LET error == IF requireAdmin(sess) # "null" THEN requireAdmin(sess)
               ELSE IF ~IsUuid(pollId) THEN ErrUuid
               ELSE "null"
  IN /\ votes' = IF error = "null" THEN DeleteVotesOf(votes, pollId) ELSE votes
     /\ polls' = IF error = "null" THEN DeletePollRow(polls, pollId) ELSE polls
     /\ last' = Result("adminDeletePoll", sess, pollId, error)
     /\ UNCHANGED <<rateLimitMap, now, Ambient>>

-----------------------------------------------------------------------------
(* deletePoll and adminDeletePoll run by concurrent requests: the request is *)
(* suspended between its two deletes                                         *)

DeleteOps == {"deletePoll", "adminDeletePoll"}

\* what a datastore request does: it is carried out, or it answers with an
\* error and changes nothing
DatastoreOutcomes == {"ok", "error"}

\* the checks of the two operations, as in deletePoll and adminDeletePoll
DeleteCheck(op, sc, tbl, sess, id) ==
  IF op = "deletePoll"
  THEN IF ~IsUuid(id) THEN ErrUuid ELSE GuardOwnership(sc, tbl, sess, id).error
  ELSE IF requireAdmin(sess) # "null" THEN requireAdmin(sess)
  ELSE IF ~IsUuid(id) THEN ErrUuid
  ELSE "null"

\* votes.poll_id REFERENCES polls(id) ON DELETE CASCADE: deleting the poll's
\* row deletes the votes that reference it
DeletePollCascade(b, id) == DeleteVotesOf(b, id)

\* up to and including delete().eq("poll_id", id) on votes, whose error the
\* code does not read
deleteStart(slot, op, sess, id, outcome) ==
  LET error == DeleteCheck(op, scope, polls, sess, id)
      removed == IF outcome = "ok"
                 THEN CountWhere(votes, {v \in DOMAIN votes : v.poll_id = id})
                 ELSE 0
      req == [pc |-> "deletePoll", op |-> op, sess |-> sess, id |-> id,
              removed |-> removed]
  IN /\ inflight[slot] = Idle
     /\ votes' = IF error = "null" /\ outcome = "ok" THEN DeleteVotesOf(votes, id) ELSE votes
     /\ inflight' = IF error = "null" THEN [inflight EXCEPT ![slot] = req] ELSE inflight
     /\ last' = IF error = "null" THEN last
                ELSE [op |-> op, sess |-> sess, id |-> id, error |-> error, removed |-> 0]
     /\ UNCHANGED <<polls, rateLimitMap, now, scope, uniqueVotes, rlParams, windowCalls,
                    userMetadata>>

\* delete().eq("id", id) on polls, and the result returned
deleteFinish(slot, outcome) ==
  LET r == inflight[slot] IN
  /\ r.pc = "deletePoll"
  /\ polls' = IF outcome = "ok" THEN DeletePollRow(polls, r.id) ELSE polls
  /\ votes' = IF outcome = "ok" THEN DeletePollCascade(votes, r.id) ELSE votes
  /\ inflight' = [inflight EXCEPT ![slot] = Idle]
  /\ last' = [op |-> r.op, sess |-> r.sess, id |-> r.id,
              error |-> IF outcome = "ok" THEN "null" ELSE ErrDatastore,
              removed |-> r.removed]
  /\ UNCHANGED <<rateLimitMap, now, scope, uniqueVotes, rlParams, windowCalls,
                 userMetadata>>

-----------------------------------------------------------------------------
(* Numbers: the double-precision arithmetic of (count / totalVotes) * 100 *)

\* A positive double is m * 2^e with m a natural number of at most
\* MantissaBits bits. A natural number too large for one machine integer is a
\* numeral: its sequence of digits in base 2^DigitBits, least significant
\* first, the last digit not 0 (so 0 is the empty sequence).
MantissaBits == 53
DigitBits == 13

RECURSIVE Pow2(_)
Pow2(n) == IF n = 0 THEN 1 ELSE 2 * Pow2(n - 1)

Base == Pow2(DigitBits)

\* the number of bits of the natural number n
RECURSIVE BitLen(_)
BitLen(n) == IF n = 0 THEN 0 ELSE 1 + BitLen(n \div 2)

NumBitLen(a) == IF a = <<>> THEN 0 ELSE DigitBits * (Len(a) - 1) + BitLen(a[Len(a)])

\* bit i of the numeral, bit 0 the least significant
NumBit(a, i) ==
  IF i \div DigitBits + 1 > Len(a) THEN 0
  ELSE (a[i \div DigitBits + 1] \div Pow2(i % DigitBits)) % 2

\* the digits without the zeros at the top
Normalize(a) ==
  LET nz == {i \in 1..Len(a) : a[i] # 0} IN
  IF nz = {} THEN <<>>
  ELSE SubSeq(a, 1, CHOOSE i \in nz : \A j \in nz : j <= i)

\* the value of a numeral that fits a machine integer
RECURSIVE NumValue(_)
NumValue(a) == IF a = <<>> THEN 0 ELSE a[1] + Base * NumValue(Tail(a))

\* floor(a / 2^k)
NumShiftRight(a, k) ==
  LET q == k \div DigitBits
      r == k % DigitBits
      digit(i) == (a[i + q] \div Pow2(r))
                  + (IF i + q + 1 <= Len(a) THEN a[i + q + 1] % Pow2(r) ELSE 0)
                    * Pow2(DigitBits - r)
  IN IF q >= Len(a) THEN <<>>
     ELSE Normalize([i \in 1..(Len(a) - q) |-> digit(i)])

\* a + carry, from digit i on
RECURSIVE NumAddFrom(_, _, _)
NumAddFrom(a, i, carry) ==
  IF i > Len(a) THEN (IF carry > 0 THEN <<carry>> ELSE <<>>)
  ELSE <<(a[i] + carry) % Base>> \o NumAddFrom(a, i + 1, (a[i] + carry) \div Base)

NumPlusOne(a) == NumAddFrom(a, 1, 1)

\* a * n + carry for a small n, from digit i on
RECURSIVE NumTimesFrom(_, _, _, _)
NumTimesFrom(a, n, i, carry) ==
  IF i > Len(a) THEN (IF carry > 0 THEN <<carry>> ELSE <<>>)
  ELSE <<(a[i] * n + carry) % Base>>
       \o NumTimesFrom(a, n, i + 1, (a[i] * n + carry) \div Base)

\* the double nearest to p * 2^e, ties to the even mantissa
RoundToDouble(p, e) ==
  LET d == NumBitLen(p) - MantissaBits IN
  IF d <= 0 THEN [m |-> p, e |-> e]
  ELSE LET kept == NumShiftRight(p, d)
           up == /\ NumBit(p, d - 1) = 1
                 /\ (NumBit(kept, 0) = 1 \/ \E i \in 0..(d - 2) : NumBit(p, i) = 1)
           r == IF up THEN NumPlusOne(kept) ELSE kept
       IN IF NumBitLen(r) > MantissaBits
          THEN [m |-> NumShiftRight(r, 1), e |-> e + d + 1]
          ELSE [m |-> r, e |-> e + d]

\* the least s with c * 2^s >= t
RECURSIVE DivScale(_, _, _)
DivScale(c, t, s) == IF c * Pow2(s) >= t THEN s ELSE DivScale(c, t, s + 1)

\* the next n digits of r / t (r < t), most significant first, and the remainder
RECURSIVE QuotientDigits(_, _, _)
QuotientDigits(r, t, n) ==
  IF n = 0 THEN [digits |-> <<>>, rem |-> r]
  ELSE LET rest == QuotientDigits((r * Base) % t, t, n - 1)
       IN [digits |-> <<(r * Base) \div t>> \o rest.digits, rem |-> rest.rem]

\* c / t for integers 0 < c <= t: the double nearest to the quotient. With
\* n = s + MantissaBits - 1 the integer floor(c * 2^n / t) has MantissaBits bits
DoubleDivide(c, t) ==
  LET n == DivScale(c, t, 0) + MantissaBits - 1
      head == c * Pow2(n % DigitBits)
      q == QuotientDigits(head % t, t, n \div DigitBits)
      k == Len(q.digits)
      floor == Normalize([i \in 1..(k + 1) |->
                            IF i = k + 1 THEN head \div t ELSE q.digits[k + 1 - i]])
      up == 2 * q.rem > t \/ (2 * q.rem = t /\ NumBit(floor, 0) = 1)
      r == IF up THEN NumPlusOne(floor) ELSE floor
  IN IF NumBitLen(r) > MantissaBits
     THEN [m |-> NumShiftRight(r, 1), e |-> 1 - n]
     ELSE [m |-> r, e |-> 0 - n]

\* x * 100
DoubleTimes100(x) == RoundToDouble(NumTimesFrom(x.m, 100, 1, 0), x.e)

\* Math.round(x) for a positive double x: floor(x + 1/2)
MathRound(x) ==
  IF x.e >= 0 THEN NumValue(x.m) * Pow2(x.e)
  ELSE NumValue(NumShiftRight(x.m, 0 - x.e)) + NumBit(x.m, 0 - x.e - 1)

-----------------------------------------------------------------------------
(* getPollResults (app/lib/actions/admin-actions.ts) *)

\* line 88: the vote is counted
CountsVoteFromOne(optionIndex, n) == optionIndex >= 1 /\ optionIndex < n
CountsVote(optionIndex, n) == optionIndex >= 0 /\ optionIndex < n

\* lines 86-91: votes.forEach over the rows of the poll, in any order; the
\* b[vote] equal rows of the bag are b[vote] iterations that add one each
RECURSIVE TallyVotes(_, _)
TallyVotes(voteCounts, b) ==
  IF DOMAIN b = {} THEN voteCounts
  ELSE LET vote == CHOOSE v \in DOMAIN b : TRUE
           rest == [v \in DOMAIN b \ {vote} |-> b[v]]
       IN TallyVotes(IF CountsVote(vote.option_index, Len(voteCounts))
                     THEN [voteCounts EXCEPT ![vote.option_index + 1] = @ + b[vote]]
                     ELSE voteCounts,
                     rest)

\* line 93: voteCounts.reduce((sum, count) => sum + count, 0)
RECURSIVE SumFrom(_, _)
SumFrom(voteCounts, i) ==
  IF i > Len(voteCounts) THEN 0 ELSE voteCounts[i] + SumFrom(voteCounts, i + 1)

\* lines 103-105: totalVotes > 0 ? Math.round((count / totalVotes) * 100) : 0
Percentage(count, totalVotes) ==
  IF totalVotes > 0 /\ count > 0
  THEN MathRound(DoubleTimes100(DoubleDivide(count, totalVotes)))
  ELSE 0

NoResults == [voteCounts |-> <<>>, totalVotes |-> 0, percentages |-> <<>>, absent |-> TRUE]

PollResults(row, b) ==
  LET voteCounts == TallyVotes([i \in 1..Len(row.options) |-> 0], b)
      totalVotes == SumFrom(voteCounts, 1)
  IN [voteCounts |-> voteCounts,
      totalVotes |-> totalVotes,
      percentages |-> [i \in 1..Len(voteCounts) |-> Percentage(voteCounts[i], totalVotes)],
      absent |-> FALSE]

getPollResults(pollId) ==
  LET row == PollRow(polls, pollId)
      error == IF ~IsUuid(pollId) THEN ErrUuid
               ELSE IF row.absent THEN ErrPollNotFound
               ELSE "null"
      rows == VotesWhere(votes, {v \in DOMAIN votes : v.poll_id = pollId})
  IN /\ last' = [op |-> "getPollResults", id |-> pollId, error |-> error,
                 results |-> IF error = "null" THEN PollResults(row, rows) ELSE NoResults]
     /\ UNCHANGED <<Store, rateLimitMap, now, Ambient>>

-----------------------------------------------------------------------------
(* Operations of app/lib/actions/auth-actions.ts, and getUserPolls *)

ErrTooManyLogins == "Too many login attempts"
ErrTooManyRegistrations == "Too many registration attempts"
ErrProvider == "AuthApiError"
ErrThrown == "fetch failed"

\* what a call on the session provider or the datastore does: it answers
\* without an error, answers with an error, or throws
ProviderOutcomes == {"ok", "error", "throw"}

\* the error of an awaited call made inside a try block
Caught(outcome) ==
  IF outcome = "throw" THEN ErrThrown
  ELSE IF outcome = "error" THEN ErrProvider
  ELSE "null"

login(data, outcome) ==
  LET rl == checkRateLimit(rateLimitMap, "login_" \o data.email, LoginMax, AuthWindowMs, now)
      error == IF ~rl.allowed THEN ErrTooManyLogins
               ELSE IF validateLoginData(data) # {} THEN ErrValidation
               ELSE Caught(outcome)
  IN /\ rateLimitMap' = rl.map
     /\ last' = [op |-> "login", id |-> data.email, error |-> error]
     /\ UNCHANGED <<Store, now, Ambient>>

\* the metadata signUp is given: role is always 'user'
SignUpMetadataFromData(data) == [name |-> data.name, role |-> data.role]
SignUpMetadata(data) == [name |-> data.name, role |-> "user"]

\* signUp: the provider creates the identity of the email with the metadata
\* it is given; an email that has an identity keeps it as it is
SignUp(users, email, metadata) ==
  [u \in DOMAIN users \cup {email} |-> IF u \in DOMAIN users THEN users[u] ELSE metadata]

register(data, outcome) ==
  LET rl == checkRateLimit(rateLimitMap, "register_" \o data.email, RegisterMax,
                           AuthWindowMs, now)
      error == IF ~rl.allowed THEN ErrTooManyRegistrations
               ELSE IF validateRegisterData(data) # {} THEN ErrValidation
               ELSE Caught(outcome)
  IN /\ rateLimitMap' = rl.map
     /\ userMetadata' = IF error = "null"
                        THEN SignUp(userMetadata, data.email, SignUpMetadata(data))
                        ELSE userMetadata
     /\ last' = [op |-> "register", id |-> data.email, error |-> error,
                 data |-> IF error = "null" THEN {SignUpMetadata(data)} ELSE {}]
     /\ UNCHANGED <<Store, now, scope, uniqueVotes, inflight, rlParams, windowCalls>>

\* logout has no try block: what createClient() or signOut() throws leaves the
\* function as an exception, and no result is returned
logout(outcome) ==
  /\ last' = IF outcome = "throw"
             THEN [op |-> "logout", id |-> "none", exception |-> ErrThrown]
             ELSE [op |-> "logout", id |-> "none", error |-> Caught(outcome)]
  /\ UNCHANGED <<Store, rateLimitMap, now, Ambient>>

\* select("id, question, options, created_at, updated_at").eq("user_id", id)
UserColumns(tbl, user) ==
  {PublicColumns(p, tbl[p]) : p \in {q \in ExistingPolls(tbl) : tbl[q].user_id = user}}

getUserPolls(sess, outcome) ==
  LET error == IF requireAuth(sess) # "null" THEN requireAuth(sess) ELSE Caught(outcome)
  IN /\ last' = [op |-> "getUserPolls", sess |-> sess, id |-> "none", error |-> error,
                 data |-> IF error = "null" THEN UserColumns(polls, sess) ELSE {}]
     /\ UNCHANGED <<Store, rateLimitMap, now, Ambient>>

-----------------------------------------------------------------------------
(* Direct calls of the exported guard and of the rate limiter *)

callRequireOwnershipOrAdmin(sess, resourceId) ==
  LET guard == requireOwnershipOrAdmin(polls, sess, resourceId) IN
  /\ last' = [op |-> "requireOwnershipOrAdmin", sess |-> sess, id |-> resourceId,
              error |-> guard.error, lookups |-> guard.lookups]
  /\ UNCHANGED <<Store, rateLimitMap, now, Ambient>>

\* getSecurityContext called on its own: getUser() yields the identity user
\* (NoUser when the request has no session) or, with authError, an error
callGetSecurityContext(user, authError) ==
  /\ last' = [op |-> "getSecurityContext", id |-> "none", error |-> "null",
              user |-> user, authError |-> authError,
              context |-> getSecurityContext(IF authError THEN NoUser ELSE user)]
  /\ UNCHANGED <<Store, rateLimitMap, now, Ambient>>

callHasPermission(context, action) ==
  /\ last' = [op |-> "hasPermission", id |-> "none", error |-> "null",
              context |-> context, action |-> action,
              result |-> hasPermission(context, action)]
  /\ UNCHANGED <<Store, rateLimitMap, now, Ambient>>

\* the role metadata of an identity is changed at the session provider, by
\* no operation of the application
setRoleMetadata(user, role) ==
  /\ UserMetadataRole(user) # role
  /\ userMetadata' = [userMetadata EXCEPT ![user] = [role |-> role]]
  /\ UNCHANGED <<Store, rateLimitMap, now, scope, uniqueVotes, inflight, rlParams,
                 windowCalls, last>>

\* sanitizeString called on its own, on the text of the pending call
callSanitizeString ==
  /\ last.op = "call"
  /\ last.id = "sanitizeString"
  /\ last' = [op |-> "sanitizeString", id |-> "none", error |-> "null",
              input |-> last.input, output |-> sanitizeString(last.input)]
  /\ UNCHANGED <<Store, rateLimitMap, now, Ambient>>

RLKeys == {"vote_A", "login_x"}

NoWindow == [n |-> 0, end |-> 0]

\* checkRateLimit(key, maxRequests, windowMs) with the parameters of rlParams;
\* windowCalls counts the calls of the key's window by the clock alone: a call
\* later than the window's end opens the next window
callCheckRateLimit(key) ==
  LET rl == checkRateLimit(rateLimitMap, key, rlParams.maxRequests, rlParams.windowMs, now)
      w == windowCalls[key]
      opens == w.n = 0 \/ now > w.end
  IN /\ rateLimitMap' = rl.map
     /\ windowCalls' = [windowCalls EXCEPT ![key] =
                          IF opens THEN [n |-> 1, end |-> now + rlParams.windowMs]
                          ELSE [w EXCEPT !.n = Min(@ + 1, rlParams.maxRequests + 2)]]
     /\ last' = [op |-> "checkRateLimit", id |-> key, at |-> now,
                 before |-> Entry(rateLimitMap, key),
                 allowed |-> rl.allowed, remaining |-> rl.remaining,
                 resetTime |-> rl.resetTime]
     /\ UNCHANGED <<Store, now, scope, uniqueVotes, inflight, rlParams, userMetadata>>

\* the clock of the rate-limiter specification
tick ==
  /\ now < MaxNow
  /\ now' = now + 1
  /\ UNCHANGED <<Store, rateLimitMap, Ambient, last>>

\* time that never stops: up to MaxNow the clock advances; from then on the
\* origin of the clock moves instead, every stored time coming one unit
\* closer (a time already in the past stays in the past)
Earlier(t) == IF t > 0 THEN t - 1 ELSE 0

tickOn ==
  /\ now' = IF now < MaxNow THEN now + 1 ELSE now
  /\ rateLimitMap' =
       IF now < MaxNow THEN rateLimitMap
       ELSE [k \in DOMAIN rateLimitMap |->
               [rateLimitMap[k] EXCEPT !.resetTime = Earlier(@)]]
  /\ windowCalls' =
       IF now < MaxNow THEN windowCalls
       ELSE [k \in DOMAIN windowCalls |-> [windowCalls[k] EXCEPT !.end = Earlier(@)]]
  /\ UNCHANGED <<Store, scope, uniqueVotes, inflight, rlParams, userMetadata, last>>

-----------------------------------------------------------------------------
(* Specifications *)

InitStore ==
  /\ polls = << >>
  /\ votes = EmptyBag
  /\ rateLimitMap = << >>
  /\ now = 0
  /\ inflight = [s \in Slots |-> Idle]
  /\ windowCalls = [k \in RLKeys |-> NoWindow]
  /\ userMetadata = InitialMetadata
  /\ last = [op |-> "none", sess |-> NoUser, id |-> "none", error |-> "null"]

\* the application on a datastore with the README's tables
Init ==
  /\ InitStore
  /\ scope \in Scopes
  /\ uniqueVotes = TRUE
  /\ rlParams = [maxRequests |-> 1, windowMs |-> 1]

\* the application on a datastore whose votes table may lack the constraints
InitRace ==
  /\ InitStore
  /\ scope \in Scopes
  /\ uniqueVotes \in BOOLEAN
  /\ rlParams = [maxRequests |-> 1, windowMs |-> 1]

\* the rate limiter alone, called with any maxRequests >= 1 and window
InitRL ==
  /\ InitStore
  /\ scope = PollActionsImports
  /\ uniqueVotes = TRUE
  /\ rlParams \in [maxRequests : 1..MaxRequests, windowMs : 1..MaxWindow]

NextRL ==
  \/ \E key \in RLKeys : callCheckRateLimit(key)
  \/ tick

SpecRL == InitRL /\ [][NextRL]_vars

\* the rate limiter while time keeps advancing and every key keeps being
\* checked
NextRLLive ==
  \/ \E key \in RLKeys : callCheckRateLimit(key)
  \/ tickOn

SpecRLLive ==
  /\ InitRL
  /\ [][NextRLLive]_vars
  /\ WF_vars(tickOn)
  /\ \A key \in RLKeys : WF_vars(callCheckRateLimit(key))


\* pairs (csrf-token field of the form, csrf-token cookie)
CsrfInputs == {<<"t1", "t1">>, <<"t2", "t1">>, <<"", "null">>}

InputQ == [question |-> TxtQ, options |-> <<TxtA, TxtB>>]
InputR == [question |-> TxtR, options |-> <<TxtA, <<>>, TxtB, TxtC>>]
InputDup == [question |-> TxtQ, options |-> <<TxtA, TxtA>>]

\* access control: the operations on polls by every kind of caller, on a
\* datastore with the README's tables; an anonymous visitor votes
Next ==
  \/ \E sess \in Users, input \in {InputQ, InputR} :
       createPoll(sess, "t1", "t1", "A", input)
  \/ \E sess \in Sessions, csrf \in CsrfInputs, pollId \in {"p1", "bad"},
        input \in {InputQ, InputR, InputDup} :
       updatePoll(sess, csrf[1], csrf[2], pollId, input)
  \/ \E sess \in Sessions, id \in {"p1", "bad"} : deletePoll(sess, id)
  \/ \E sess \in Sessions, id \in {"p1", "bad"} : getPollById(sess, id)
  \/ \E sess \in Sessions, id \in {"p1", "bad"} : getPollByIdForEdit(sess, id)
  \/ submitVote(NoUser, "p1", 0, "A")
  \/ \E sess \in Sessions : getAllPolls(sess)
  \/ \E sess \in Sessions, pollId \in {"p1", "bad"} : getPollVotes(sess, pollId)
  \/ \E sess \in Sessions, pollId \in {"p1", "bad"} : adminDeletePoll(sess, pollId)
  \/ \E sess \in Sessions, id \in {"p1", "p2"} : callRequireOwnershipOrAdmin(sess, id)

Spec == Init /\ [][Next]_vars

\* voting: submitVote calls handled one after the other on the poll u1 creates
NextVote ==
  \/ createPoll("u1", "t1", "t1", "A", InputQ)
  \/ \E sess \in {NoUser, "u1", "u2"}, optionIndex \in {0, 1}, clientIP \in Addresses :
       submitVote(sess, "p1", optionIndex, clientIP)

SpecVote == Init /\ [][NextVote]_vars

\* voting: two submitVote requests running concurrently
NextRace ==
  \/ createPoll("u1", "t1", "t1", "A", InputQ)
  \/ \E slot \in Slots, sess \in {NoUser, "u1"} : voteStart(slot, sess, "p1", 0, "A")
  \/ \E slot \in Slots : voteLookup(slot)
  \/ \E slot \in Slots : voteCheck(slot)
  \/ \E slot \in Slots : voteInsert(slot)

SpecRace == InitRace /\ [][NextRace]_vars

\* texts that pass the validator and that the sanitizer changes
TxtATrail == <<"a", " ">>
TxtBlank == <<" ">>
TxtAngle == <<"<">>
TxtSplit == <<"j","a","v","a","o","<","n","x","=","s","c","r","i","p","t",":">>
TxtSplitHandler == <<"o","o","<","n","x","=","n","x","=">>
\* a text the validator refuses
TxtHandler == <<"o","n","x","=">>

InputTrail == [question |-> TxtQ, options |-> <<TxtA, TxtATrail>>]
InputBlank == [question |-> TxtBlank, options |-> <<TxtA, TxtAngle>>]
InputSplit == [question |-> TxtSplit, options |-> <<TxtA, TxtSplitHandler>>]
InputHandler == [question |-> TxtHandler, options |-> <<TxtA, TxtB>>]

PollInputs == {InputQ, InputR, InputDup, InputTrail, InputBlank, InputSplit, InputHandler}

\* poll content: the owner creates, rewrites and deletes a poll while an
\* anonymous visitor votes on it
NextPoll ==
  \/ \E input \in PollInputs : createPoll("u1", "t1", "t1", "A", input)
  \/ \E input \in PollInputs : updatePoll("u1", "t1", "t1", "p1", input)
  \/ \E optionIndex \in {0, 2} : submitVote(NoUser, "p1", optionIndex, "A")
  \/ deletePoll("u1", "p1")

SpecPoll == Init /\ [][NextPoll]_vars

InputThree == [question |-> TxtR, options |-> <<TxtC, TxtATrail, TxtB>>]

CreateInputs == {InputQ, InputR, InputDup, InputHandler, InputThree}

\* creating polls: every kind of caller submits the form, with and without
\* the CSRF token, from one address
NextCreate ==
  \E sess \in {NoUser, "u1", "u2"}, csrf \in {<<"t1", "t1">>, <<"t2", "t1">>},
     input \in CreateInputs :
    createPoll(sess, csrf[1], csrf[2], "A", input)

SpecCreate == Init /\ [][NextCreate]_vars

PwGood == <<"P","a","s","s","w","0","r","d">>
PwShort == <<"p","w">>
PwLower == <<"p","a","s","s","w","o","r","d">>

LoginInputs ==
  {[email |-> "x@y.io", password |-> PwGood],
   [email |-> "x@y.io", password |-> PwShort],
   [email |-> "x", password |-> PwGood]}

RegisterInputs ==
  {[name |-> TxtQ, email |-> "x@y.io", password |-> PwGood, confirmPassword |-> PwGood],
   [name |-> TxtHandler, email |-> "x@y.io", password |-> PwGood, confirmPassword |-> PwGood],
   [name |-> TxtQ, email |-> "x@y.io", password |-> PwLower, confirmPassword |-> PwGood]}

\* sessions: sign-in, sign-up, sign-out and the caller's own polls, with a
\* session provider and a datastore that can fail
NextAuth ==
  \/ \E data \in LoginInputs, outcome \in ProviderOutcomes : login(data, outcome)
  \/ \E data \in RegisterInputs, outcome \in ProviderOutcomes : register(data, outcome)
  \/ \E outcome \in ProviderOutcomes : logout(outcome)
  \/ \E sess \in {NoUser, "u1"}, outcome \in ProviderOutcomes :
       getUserPolls(sess, outcome)

SpecAuth == Init /\ [][NextAuth]_vars

\* getAllPolls in a request whose session, if it has one, is the session of
\* an identity the provider knows
getAllPollsAs(sess) ==
  /\ sess \in {NoUser} \cup DOMAIN userMetadata
  /\ getAllPolls(sess)

\* sign-up forms that carry a role field of their own
RegisterRoleInputs ==
  {[name |-> TxtQ, email |-> "x@y.io", password |-> PwGood, confirmPassword |-> PwGood,
    role |-> "admin"],
   [name |-> TxtA, email |-> "x@y.io", password |-> PwGood, confirmPassword |-> PwGood,
    role |-> "user"],
   [name |-> TxtQ, email |-> "x@y.io", password |-> PwLower, confirmPassword |-> PwGood,
    role |-> "admin"]}

\* signing up, in and out, and asking for the admin's list of polls with the
\* session of any identity the provider knows
NextRegister ==
  \/ \E data \in RegisterRoleInputs, outcome \in ProviderOutcomes : register(data, outcome)
  \/ \E data \in LoginInputs, outcome \in ProviderOutcomes : login(data, outcome)
  \/ \E outcome \in ProviderOutcomes : logout(outcome)
  \/ \E sess \in {NoUser, "u1", "adm", "x@y.io"} : getAllPollsAs(sess)

SpecRegister == Init /\ [][NextRegister]_vars

\* the checks of submitVote: votes by a user and by a visitor, on the poll, on
\* an id that names no poll and on a malformed id, for options in and out of range
NextOrder ==
  \/ createPoll("u1", "t1", "t1", "A", InputQ)
  \/ \E sess \in {NoUser, "u1"}, pollId \in {"p1", "p2", "bad"}, optionIndex \in {-1, 0, 2} :
       submitVote(sess, pollId, optionIndex, "A")

SpecOrder == Init /\ [][NextOrder]_vars

\* deleting a poll while votes on it are submitted: an owner, an admin and
\* another user delete, on a datastore whose requests can fail
NextDelete ==
  \/ createPoll("u1", "t1", "t1", "A", InputQ)
  \/ \E slot \in Slots, sess \in {NoUser, "u2"} : voteStart(slot, sess, "p1", 0, "A")
  \/ \E slot \in Slots : voteLookup(slot)
  \/ \E slot \in Slots : voteCheck(slot)
  \/ \E slot \in Slots : voteInsert(slot)
  \/ \E slot \in Slots, op \in DeleteOps, sess \in {"u1", "u2", "adm"},
        outcome \in DatastoreOutcomes :
       deleteStart(slot, op, sess, "p1", outcome)
  \/ \E slot \in Slots, outcome \in DatastoreOutcomes : deleteFinish(slot, outcome)

SpecDelete == Init /\ [][NextDelete]_vars

\* contexts a caller can hold: the ones getSecurityContext builds, and records
\* of the same shape with other permission lists
CustomContexts ==
  [user : {"u1"}, role : {"user"}, permissions : SUBSET {"read", "write:own", "admin:access"},
   isAuthenticated : BOOLEAN, isAdmin : {FALSE}]

PermissionActions ==
  {PermissionChars(p) : p \in AdminPermissions \cup UserPermissions \cup {"read"}}
  \cup {<<>>, <<":">>, <<"r","e",":","a","l","l">>, <<"r","e","a","d","s",":","o","w","n">>,
         <<"a","d","m","i","n">>, <<"w","r","i","t","e",":">>}

\* security contexts: resolved for every kind of caller while the provider's
\* role metadata changes, and asked for permissions
NextContext ==
  \/ \E user \in Sessions, authError \in BOOLEAN : callGetSecurityContext(user, authError)
  \/ \E user \in {"u1", "u2"}, role \in {"admin", "moderator"} : setRoleMetadata(user, role)
  \/ \E sess \in Sessions, action \in PermissionActions :
       callHasPermission(getSecurityContext(sess), action)
  \/ \E context \in CustomContexts, action \in PermissionActions :
       callHasPermission(context, action)

SpecContext == Init /\ [][NextContext]_vars

\* texts: up to MaxChunks pieces, each a character or a part of one of the
\* sanitizer's patterns
TextChunks == {<<"a">>, <<" ">>, <<"<">>, <<"o","n">>, <<"x","=">>,
               <<"j","a","v","a">>, <<"s","c","r","i","p","t",":">>}

RECURSIVE Flatten(_)
Flatten(chunks) == IF chunks = <<>> THEN <<>> ELSE Head(chunks) \o Flatten(Tail(chunks))

Texts == UNION {{Flatten(cs) : cs \in [1..n -> TextChunks]} : n \in 0..MaxChunks}

\* sanitizeString is about to be called on any of the texts
InitText ==
  /\ polls = << >>
  /\ votes = EmptyBag
  /\ rateLimitMap = << >>
  /\ now = 0
  /\ inflight = [s \in Slots |-> Idle]
  /\ windowCalls = [key \in RLKeys |-> NoWindow]
  /\ userMetadata = InitialMetadata
  /\ \E input \in Texts :
       last = [op |-> "call", id |-> "sanitizeString", error |-> "null", input |-> input]
  /\ scope = PollActionsImports
  /\ uniqueVotes = TRUE
  /\ rlParams = [maxRequests |-> 1, windowMs |-> 1]

NextText == callSanitizeString

SpecText == InitText /\ [][NextText]_vars

\* a votes table holding k[i] anonymous votes for option_index i of poll p1
TallyBag(k) ==
  [v \in {VoteRow(NoUser, "p1", i, NoIP) : i \in {j \in DOMAIN k : k[j] > 0}}
     |-> k[v.option_index]]

\* getPollResults on any stored tally: votes for the first two options in any
\* numbers, and possibly a vote for option_index 2 (out of range when the poll
\* has two options) and for option_index -1 (not a row submitVote writes)
InitResults ==
  /\ \E options \in {<<TxtA, TxtB>>, <<TxtA, TxtB, TxtC>>} :
       polls = [p \in {"p1"} |-> [user_id |-> "u1", question |-> TxtQ,
                                  options |-> options, absent |-> FALSE]]
  /\ \E k \in [{0, 1} -> 0..MaxTally], x \in 0..1 :
       votes = TallyBag([i \in {-1, 0, 1, 2} |-> IF i \in DOMAIN k THEN k[i] ELSE x])
  /\ rateLimitMap = << >>
  /\ now = 0
  /\ inflight = [s \in Slots |-> Idle]
  /\ windowCalls = [key \in RLKeys |-> NoWindow]
  /\ userMetadata = InitialMetadata
  /\ last = [op |-> "none", sess |-> NoUser, id |-> "none", error |-> "null"]
  /\ scope = PollActionsImports
  /\ uniqueVotes = TRUE
  /\ rlParams = [maxRequests |-> 1, windowMs |-> 1]

NextResults == \E pollId \in {"p1", "p2", "bad"} : getPollResults(pollId)

SpecResults == InitResults /\ [][NextResults]_vars

-----------------------------------------------------------------------------
(* Rate limiter: claims C9 and C10, under SpecRL *)

LastIsRateLimitCall == last.op = "checkRateLimit"

\* C9: of the checkRateLimit calls of a key that fall in one window (from the
\* call that opened it up to and including its resetTime), exactly the first
\* maxRequests are allowed; every later one is denied with remaining = 0 and
\* the stored resetTime.
C9_FirstNAllowed ==
  LastIsRateLimitCall =>
    LET w == windowCalls[last.id] IN
    /\ last.allowed <=> w.n <= rlParams.maxRequests
    /\ ~last.allowed =>
         /\ last.remaining = 0
         /\ last.resetTime = Entry(rateLimitMap, last.id).resetTime
         /\ last.resetTime = w.end

\* the (N+1)-th call of a window, with N = 2, has been denied
C9_Witness ==
  /\ LastIsRateLimitCall
  /\ rlParams.maxRequests = 2
  /\ windowCalls[last.id].n = 3
  /\ ~last.allowed

\* C10: the first call of a key ever, and the first call made strictly after
\* the stored resetTime, is allowed with remaining = maxRequests - 1 and
\* resetTime = now + windowMs and leaves the entry {count: 1, resetTime: now +
\* windowMs} whatever the count was; a call made exactly at the stored
\* resetTime is counted in the old window.
C10_FreshWindow ==
  LastIsRateLimitCall =>
    LET e == Entry(rateLimitMap, last.id)
        b == last.before
    IN /\ (b.absent \/ last.at > b.resetTime) =>
            /\ last.allowed
            /\ last.remaining = rlParams.maxRequests - 1
            /\ last.resetTime = last.at + rlParams.windowMs
            /\ e = [count |-> 1, resetTime |-> last.at + rlParams.windowMs, absent |-> FALSE]
       /\ (~b.absent /\ last.at = b.resetTime) =>
            /\ e.resetTime = b.resetTime
            /\ last.resetTime = b.resetTime
            /\ last.allowed <=> b.count < rlParams.maxRequests
            /\ e.count = IF last.allowed THEN b.count + 1 ELSE b.count

\* an exhausted entry has been replaced by a call after its resetTime
C10_Witness ==
  /\ LastIsRateLimitCall
  /\ ~last.before.absent
  /\ last.before.count = 2
  /\ rlParams.maxRequests = 2
  /\ last.at > last.before.resetTime
  /\ last.allowed
  /\ Entry(rateLimitMap, last.id).count = 1

-----------------------------------------------------------------------------
(* Vote integrity: claims C1 to C4 *)

\* the number of votes of a poll cast by the user
UserVotes(b, pollId, user) ==
  CountWhere(b, {v \in DOMAIN b : v.poll_id = pollId /\ v.user_id = user})

\* the number of anonymous votes of a poll cast from the address
AnonymousVotes(b, pollId, ip) ==
  CountWhere(b, {v \in DOMAIN b : v.poll_id = pollId /\ v.user_id = NoUser /\ v.ip_address = ip})

\* the number of votes of a poll under the voter key of a caller
KeyVotes(b, pollId, sess, ip) ==
  IF sess # NoUser THEN UserVotes(b, pollId, sess) ELSE AnonymousVotes(b, pollId, ip)

\* C1: after any sequence of submitVote calls handled one after the other,
\* the votes table holds at most one vote per (poll, user) among the
\* authenticated votes and at most one per (poll, address) among the
\* anonymous ones.
C1_OneVotePerVoterKey ==
  \A pollId \in PollUuids :
    /\ \A user \in Users : UserVotes(votes, pollId, user) <= 1
    /\ \A ip \in Addresses : AnonymousVotes(votes, pollId, ip) <= 1

\* a user and an anonymous visitor have both voted on the poll, and a further
\* vote has just been refused
C1_Witness ==
  /\ last.op = "submitVote"
  /\ last.error # "null"
  /\ UserVotes(votes, "p1", "u1") = 1
  /\ \E ip \in Addresses : AnonymousVotes(votes, "p1", ip) = 1

\* C2: a second submitVote of a voter key that has voted on the poll (and
\* that is not rate limited) fails with the duplicate-vote error of its kind
\* of caller and records no vote, whichever option it names.
C2_SecondVoteRefused ==
  last.op = "submitVote" =>
    LET n == KeyVotes(votes, last.id, last.sess, last.ip) IN
    /\ last.error = "null" => n = 1
    /\ (n >= 1 /\ last.error \notin {"null", ErrRateLimit}) =>
         last.error = IF last.sess # NoUser THEN ErrVotedUser ELSE ErrVotedDevice

\* u1, whose vote for option 0 is stored, has been refused a vote for option 1
C2_Witness ==
  /\ last.op = "submitVote"
  /\ last.sess = "u1"
  /\ last.option = 1
  /\ last.error = ErrVotedUser
  /\ \E v \in DOMAIN votes : v.user_id = "u1" /\ v.poll_id = last.id /\ v.option_index = 0

C4_ConstraintSerializesInserts ==
  uniqueVotes =>
    \A pollId \in PollUuids :
      /\ \A user \in Users : UserVotes(votes, pollId, user) <= 1
      /\ \A ip \in Addresses :
           CountWhere(votes, {v \in DOMAIN votes : v.poll_id = pollId /\ v.ip_address = ip}) <= 1

\* without the constraints two requests of u1 have both passed the check and
\* both inserted
C4_Witness ==
  /\ ~uniqueVotes
  /\ UserVotes(votes, "p1", "u1") = 2
  /\ \A slot \in Slots : inflight[slot] = Idle

-----------------------------------------------------------------------------
(* Access control: claims C5 to C8, under Spec *)

IsAdminUser(sess) == sess # NoUser /\ UserMetadataRole(sess) = "admin"

\* the caller is authenticated and owns the poll or is an admin
MayModify(tbl, sess, id) ==
  /\ sess # NoUser
  /\ \/ IsAdminUser(sess)
     \/ (~PollRow(tbl, id).absent /\ PollRow(tbl, id).user_id = sess)

ModifyingOps == {"updatePoll", "deletePoll", "adminDeletePoll"}

\* C5: a stored poll changes or disappears only in an updatePoll, deletePoll or
\* adminDeletePoll call of an authenticated caller who owns it or is an admin
\* (its text only in updatePoll); such a call by anyone else leaves the polls
\* and the votes as they were.
C5_OnlyOwnerOrAdminModifies ==
  [][ /\ \A p \in DOMAIN polls :
           (~polls[p].absent /\ polls'[p] # polls[p]) =>
             /\ last'.op \in ModifyingOps
             /\ last'.id = p
             /\ last'.error = "null"
             /\ MayModify(polls, last'.sess, p)
             /\ ~polls'[p].absent => last'.op = "updatePoll"
      /\ (last'.op \in ModifyingOps /\ ~MayModify(polls, last'.sess, last'.id)) =>
           /\ polls' = polls
           /\ votes' = votes
           /\ last'.error # "null"
    ]_vars

\* u2, owner of p1 and no admin, has deleted it
C5_Witness ==
  /\ last.op = "deletePoll"
  /\ last.sess = "u2"
  /\ last.error = "null"
  /\ "p1" \in DOMAIN polls
  /\ polls["p1"].absent

\* C6: requireOwnershipOrAdmin fails with AuthRequired for an unauthenticated
\* caller, succeeds for an admin without looking the owner up, succeeds for a
\* non-admin exactly when the stored owner is the caller, and fails with
\* AccessDenied otherwise, also for a resource that does not exist.
C6_OwnershipGuard ==
  last.op = "requireOwnershipOrAdmin" =>
    LET row == PollRow(polls, last.id) IN
    IF last.sess = NoUser THEN last.error = ErrAuthRequired /\ last.lookups = 0
    ELSE IF UserMetadataRole(last.sess) = "admin"
    THEN last.error = "null" /\ last.lookups = 0
    ELSE IF ~row.absent /\ row.user_id = last.sess THEN last.error = "null"
    ELSE last.error = ErrAccessDenied

\* a non-admin has been denied a resource that does not exist
C6_Witness ==
  /\ last.op = "requireOwnershipOrAdmin"
  /\ last.sess = "u1"
  /\ PollRow(polls, last.id).absent
  /\ last.error = ErrAccessDenied
  /\ ExistingPolls(polls) # {}

AdminOps == {"getAllPolls", "getPollVotes", "adminDeletePoll"}

C8_PublicReadGuardedEdit ==
  LET row == PollRow(polls, last.id) IN
  /\ (last.op = "getPollById" /\ ~row.absent) =>
       last.error = "null" /\ last.data = {PublicColumns(last.id, row)}
  /\ (/\ last.op = "getPollByIdForEdit"
      /\ ~row.absent
      /\ last.sess # NoUser
      /\ ~MayModify(polls, last.sess, last.id)) =>
       last.data = {} /\ last.error = ErrAccessDenied

-----------------------------------------------------------------------------
(* Rate limiter under concurrent requests: claim C11, under SpecRace *)

\* C11: the checkRateLimit step of a submitVote request (lines 146-153, no
\* await in it) is atomic among the concurrent requests of one key in one
\* window: every request let through raises the key's count by exactly one
\* from a count below the limit, a refused request finds the count at the
\* limit, and the count never exceeds the limit, so at most VoteMax requests
\* of the window are let through.
C11_AtomicRateLimitStep ==
  [][ /\ \A k \in DOMAIN rateLimitMap' : rateLimitMap'[k].count <= VoteMax
      /\ \A slot \in Slots :
           (inflight[slot] = Idle /\ inflight'[slot] # Idle) =>
             LET k == VoteKey(inflight'[slot].clientIP) IN
             /\ Entry(rateLimitMap, k).count < VoteMax
             /\ rateLimitMap'[k].count = Entry(rateLimitMap, k).count + 1
      /\ (last' # last /\ last'.op = "submitVote" /\ last'.error = ErrRateLimit) =>
           /\ Entry(rateLimitMap, VoteKey(last'.ip)).count = VoteMax
           /\ rateLimitMap' = rateLimitMap
    ]_vars

\* with a request of the key suspended at an await, the key's window is used
\* up and a further request has been refused
C11_Witness ==
  /\ \E slot \in Slots : inflight[slot] # Idle /\ inflight[slot].clientIP = "A"
  /\ Entry(rateLimitMap, "vote_A").count = VoteMax
  /\ last.op = "submitVote"
  /\ last.error = ErrRateLimit

-----------------------------------------------------------------------------
(* Order of the checks of an action: claim C12, under Spec *)

LimitedOps == {"createPoll", "updatePoll", "deletePoll", "submitVote", "login"}

\* C12: createPoll, updatePoll, deletePoll, submitVote and login consult the
\* rate limiter before anything else: every call of one of them is either
\* refused as RateLimited or counted in the rate-limit map (an allowed call
\* always writes its entry), whatever its other checks answer.
C12_RateLimiterFirst ==
  [][ last'.op \in LimitedOps =>
        (last'.error \in {ErrRateLimit, ErrTooManyLogins} \/ rateLimitMap' # rateLimitMap)
    ]_vars

-----------------------------------------------------------------------------
(* The key of submitVote's rate limit: claim C13, under SpecVote *)

\* callerIdentity ?? callerAddress ?? "anonymous"
IdentityVoteKey(sess, clientIP) ==
  "vote_" \o (IF sess # NoUser THEN sess
              ELSE IF clientIP # NoIP THEN clientIP
              ELSE "anonymous")

\* C13: submitVote counts a call under the caller's identity when there is
\* one, under the caller's address when there is none, under "anonymous" when
\* there is neither: a call is refused as RateLimited only when the entry of
\* that key is used up, and a call let through is counted in that entry and
\* in no other (so an identity has one quota whatever its addresses, and two
\* identities at one address have one each).
C13_VoteKeyedByIdentity ==
  [][ last'.op = "submitVote" =>
        LET k == IdentityVoteKey(last'.sess, last'.ip) IN
        IF last'.error = ErrRateLimit
        THEN Entry(rateLimitMap, k).count >= VoteMax
        ELSE /\ Entry(rateLimitMap', k).count = Entry(rateLimitMap, k).count + 1
             /\ \A j \in DOMAIN rateLimitMap' :
                  j # k => Entry(rateLimitMap, j) = rateLimitMap'[j]
    ]_vars

-----------------------------------------------------------------------------
(* Stored polls and votes: claims C14, C15 and C19, under SpecPoll *)

\* the texts of a stored poll
StoredTexts(row) == {row.question} \cup {row.options[i] : i \in 1..Len(row.options)}

\* C14: every stored poll has, as stored, a question of 1 to 500 characters
\* and 2 to 10 options, none empty and no two equal.
C14_StoredPollValid ==
  \A p \in ExistingPolls(polls) :
    LET row == polls[p] IN
    /\ Len(row.question) >= 1
    /\ Len(row.question) <= QuestionMaxLen
    /\ Len(row.options) >= OptionsMin
    /\ Len(row.options) <= OptionsMax
    /\ \A i \in 1..Len(row.options) : Len(row.options[i]) >= 1
    /\ AllDistinct(row.options)

C19_StoredTextClean ==
  \A p \in ExistingPolls(polls) :
    \A text \in StoredTexts(polls[p]) :
      \A i \in 1..Len(text) :
        /\ text[i] \notin {"<", ">"}
        /\ ~MatchAt(text, i, JavascriptPat)
        /\ OnHandlerAt(text, i) = 0

-----------------------------------------------------------------------------
(* Result tally: claims C16 and C17, under SpecResults *)

\* the number of votes of the poll for the option index
VotesFor(b, pollId, i) ==
  CountWhere(b, {v \in DOMAIN b : v.poll_id = pollId /\ v.option_index = i})

\* C16: getPollResults returns one count per option, voteCounts[i] the number
\* of the poll's votes with option_index = i; votes with an index below 0 or
\* not below options.length are counted nowhere; totalVotes is the sum of
\* voteCounts, that is the number of the votes in range.
C16_TallyCountsVotesInRange ==
  (last.op = "getPollResults" /\ last.error = "null") =>
    LET n == Len(PollRow(polls, last.id).options)
        r == last.results
    IN /\ Len(r.voteCounts) = n
       /\ \A i \in 1..n : r.voteCounts[i] = VotesFor(votes, last.id, i - 1)
       /\ r.totalVotes = SumFrom(r.voteCounts, 1)
       /\ r.totalVotes = CountWhere(votes, {v \in DOMAIN votes :
                            /\ v.poll_id = last.id
                            /\ v.option_index >= 0
                            /\ v.option_index < n})

\* a tally of a two-option poll that has votes for both options and has left
\* out a vote for index 2 and a vote for index -1
C16_Witness ==
  /\ last.op = "getPollResults"
  /\ last.error = "null"
  /\ Len(last.results.voteCounts) = 2
  /\ last.results.voteCounts[1] = 2
  /\ last.results.voteCounts[2] = 1
  /\ VotesFor(votes, "p1", 2) = 1
  /\ VotesFor(votes, "p1", -1) = 1
  /\ last.results.totalVotes = 3
  /\ BagCardinality(votes) = 5

\* voteCounts[i] * 100 / totalVotes rounded to the nearest integer, halves up
NearestPercent(count, totalVotes) == (200 * count + totalVotes) \div (2 * totalVotes)

\* C17: percentages[i] is voteCounts[i] * 100 / totalVotes rounded to the
\* nearest integer, halves up, when totalVotes > 0, and 0 when totalVotes = 0.
C17_PercentagesNearest ==
  (last.op = "getPollResults" /\ last.error = "null") =>
    LET r == last.results IN
    \A i \in 1..Len(r.voteCounts) :
      r.percentages[i] = IF r.totalVotes > 0
                         THEN NearestPercent(r.voteCounts[i], r.totalVotes)
                         ELSE 0

-----------------------------------------------------------------------------
(* Sanitizer: claim C18, under SpecText *)

\* C18: sanitizeString is idempotent: sanitizing its output again returns the
\* output.
C18_SanitizeIdempotent ==
  last.op = "sanitizeString" => sanitizeString(last.output) = last.output

-----------------------------------------------------------------------------
(* Results of the public operations: claim C20, under SpecAuth *)

PublicOps == {"createPoll", "updatePoll", "deletePoll", "getPollById",
              "getPollByIdForEdit", "submitVote", "getPollResults", "getUserPolls",
              "getAllPolls", "getPollVotes", "adminDeletePoll", "login", "register",
              "logout"}

\* C20: whatever fails, a public operation returns a result with an error
\* field; none ends with an exception.
C20_ErrorFieldAlways ==
  last.op \in PublicOps => "error" \in DOMAIN last

-----------------------------------------------------------------------------
(* createPoll: claims C21 and C22, under SpecCreate *)

\* the call is not refused by the rate limiter
CreateNotLimited(map, ip, t) ==
  LET current == Entry(map, "create_poll_" \o ip) IN
  WindowOver(current, t) \/ ~QuotaUsed(current, CreatePollMax)

C22_InvalidInputRefused ==
  [][ (/\ last'.op = "createPoll"
       /\ validatePollData(last'.input) # {}) =>
        /\ last'.error # "null"
        /\ polls' = polls
    ]_vars

-----------------------------------------------------------------------------
(* Security context and permissions: claims C23 and C24, under SpecContext *)

BeginsWithActionPrefix(permission, action) ==
  \E k \in 0..Len(action) :
    /\ k = Len(action) \/ action[k + 1] = ":"
    /\ \A i \in 1..k : action[i] # ":"
    /\ Len(permission) > k
    /\ \A i \in 1..k : permission[i] = action[i]
    /\ permission[k + 1] = ":"

\* C24: hasPermission is false for an unauthenticated context, true for a
\* context holding admin:access, and otherwise true exactly when a held
\* permission equals the action or begins with the action's part before its
\* first ':' followed by ':'; a plain user is granted read:all, write:all and
\* delete:all and refused admin:access.
C24_HasPermission ==
  last.op = "hasPermission" =>
    LET c == last.context
        action == last.action
    IN /\ ~c.isAuthenticated => ~last.result
       /\ (c.isAuthenticated /\ "admin:access" \in c.permissions) => last.result
       /\ (c.isAuthenticated /\ "admin:access" \notin c.permissions) =>
            (last.result <=>
               \E p \in c.permissions :
                 \/ PermissionChars(p) = action
                 \/ BeginsWithActionPrefix(PermissionChars(p), action))
       /\ (c.isAuthenticated /\ c.permissions = {"read:own", "write:own", "delete:own"}) =>
            /\ action \in {PermissionChars("read:all"), PermissionChars("write:all"),
                            PermissionChars("delete:all")} => last.result
            /\ action = PermissionChars("admin:access") => ~last.result

\* the context resolved for a plain user has been granted read:all
C24_Witness ==
  /\ last.op = "hasPermission"
  /\ last.context = getSecurityContext("u2")
  /\ last.context.role = "user"
  /\ last.action = PermissionChars("read:all")
  /\ last.result

-----------------------------------------------------------------------------
(* Deleting a poll and its votes: claims C25 and C26, under SpecDelete *)

C26_NoVoteOfDeletedPoll ==
  \A v \in DOMAIN votes : ~PollRow(polls, v.poll_id).absent

\* the poll has been deleted while a submitVote that found it is about to
\* insert its row, and the insert has been refused
C26_Witness ==
  /\ last.op = "submitVote"
  /\ last.error = ErrForeignKey
  /\ PollRow(polls, "p1").absent
  /\ "p1" \in DOMAIN polls

-----------------------------------------------------------------------------
(* Order of submitVote's checks: claim C27, under SpecOrder *)

\* the voter already has a vote on the poll
HasVoted(b, sess, pollId, ip) ==
  \E v \in DOMAIN b :
    /\ v.poll_id = pollId
    /\ IF sess # NoUser THEN v.user_id = sess ELSE v.ip_address = ip

\* C27: submitVote returns the failure of the first check that fails, in the
\* order rate limit, input shape, poll lookup, option bounds, duplicate vote,
\* and only then inserts the vote (an insert the datastore may still refuse).
C27_ChecksInOrder ==
  [][ last'.op = "submitVote" /\ last' # last =>
        LET current == Entry(rateLimitMap, "vote_" \o last'.ip)
            limited == ~WindowOver(current, now) /\ current.count >= VoteMax
            poll == PollRow(polls, last'.id)
        IN IF limited THEN last'.error = ErrRateLimit /\ votes' = votes
           ELSE IF last'.id \notin PollUuids \/ last'.option < 0
           THEN last'.error = ErrValidation /\ votes' = votes
           ELSE IF poll.absent THEN last'.error = ErrPollNotFound /\ votes' = votes
           ELSE IF last'.option >= Len(poll.options)
           THEN last'.error = ErrInvalidOption /\ votes' = votes
           ELSE IF HasVoted(votes, last'.sess, last'.id, last'.ip)
           THEN last'.error \in {ErrVotedUser, ErrVotedDevice} /\ votes' = votes
           ELSE \/ last'.error = "null"
                \/ last'.error = ErrUniqueViolation /\ votes' = votes
    ]_vars

-----------------------------------------------------------------------------
(* Rate limiter, entries of other keys: claim C28, under SpecRL *)

\* C28: a checkRateLimit call changes no entry but the one of its own key,
\* and a denied call changes no entry at all.
C28_OwnEntryOnly ==
  [][ /\ \A k \in (DOMAIN rateLimitMap \cup DOMAIN rateLimitMap') \ {last'.id} :
           Entry(rateLimitMap', k) = Entry(rateLimitMap, k)
      /\ (last'.op = "checkRateLimit" /\ ~last'.allowed) => rateLimitMap' = rateLimitMap
    ]_vars

\* a call has been denied while the other key has an entry of its own
C28_Witness ==
  /\ last.op = "checkRateLimit"
  /\ ~last.allowed
  /\ DOMAIN rateLimitMap = RLKeys
  /\ \E k \in RLKeys : k # last.id /\ rateLimitMap[k] # rateLimitMap[last.id]

-----------------------------------------------------------------------------
(* Rate limiter, recovery: claim C29, under SpecRLLive *)

DeniedFor(key) == last.op = "checkRateLimit" /\ last.id = key /\ ~last.allowed

AllowedFor(key) == last.op = "checkRateLimit" /\ last.id = key /\ last.allowed

\* C29: while time advances and the key keeps being checked, a denied call
\* for a key is followed by an allowed call for that key.
C29_DeniedThenAllowed ==
  \A key \in RLKeys : DeniedFor(key) ~> AllowedFor(key)

\* a call has been denied again, in a window that already had a denied call
C29_Witness ==
  /\ last.op = "checkRateLimit"
  /\ ~last.allowed
  /\ windowCalls[last.id].n >= rlParams.maxRequests + 2

-----------------------------------------------------------------------------
(* Registration and the admin role: claim C30, under SpecRegister *)

\* the identities register has created
Registered == DOMAIN userMetadata \ Users

\* C30: an identity created by register has the role user whatever the form
\* carried: its security context is no admin's, and requireAdmin and the
\* admin operations fail for it with AdminRequired.
C30_RegisterGivesNoAdmin ==
  /\ \A id \in Registered :
       /\ UserMetadataRole(id) = "user"
       /\ ~getSecurityContext(id).isAdmin
       /\ requireAdmin(id) = ErrAdminRequired
  /\ (last.op = "getAllPolls" /\ last.sess \in Registered) =>
       last.error = ErrAdminRequired /\ last.data = {}

\* the identity signed up with a form that carried role admin has been
\* refused the admin's list of polls
C30_Witness ==
  /\ last.op = "getAllPolls"
  /\ last.sess = "x@y.io"
  /\ last.error = ErrAdminRequired
  /\ userMetadata["x@y.io"].name = TxtQ

====
